---- MODULE Spec2Model ----
(***************************************************************************)
(* FAQ extraction, validation and structured-data generation.              *)
(*                                                                         *)
(* parseFAQFromContent, cleanText, stripMarkdownLinks and validateFAQData  *)
(* are modelled from astro.config.mjs:214-285, generateFAQSchema and       *)
(* generateFAQSchemaItems from core/seo/generateFAQSchema.                 *)
(*                                                                         *)
(* A JavaScript string is a sequence of one-character strings, so that the *)
(* regular expressions of the source are computed character by character.  *)
(***************************************************************************)
EXTENDS Integers, Sequences, FiniteSets, TLC

VARIABLES doc, content, parsed, data, valid, schema, schemaItems, schemaType,
          result, pc

vars ==
    <<doc, content, parsed, data, valid, schema, schemaItems, schemaType, result, pc>>

(***************************************************************************)
(* Bounds of the model.                                                    *)
(***************************************************************************)
\* Largest number of blocks after the first line of a generated document.
MaxBlocks == 4

\* Largest number of entries of an externally constructed items array.
MaxItems == 2

(***************************************************************************)
(* JavaScript values.  A value is a record [t, s]: its type tag and, for a *)
(* string, its characters (for a number, its decimal digits).              *)
(***************************************************************************)
Undefined == [t |-> "undefined", s |-> <<>>]

Null == [t |-> "null", s |-> <<>>]

Str(chars) == [t |-> "string", s |-> chars]

Num(digits) == [t |-> "number", s |-> digits]

ArrayValue == [t |-> "array", s |-> <<>>]

ObjectValue == [t |-> "object", s |-> <<>>]

\* ToBoolean: undefined, null, "" and 0 are falsy; every other value used
\* here (non-empty strings, non-zero numbers, arrays, objects) is truthy.
Truthy(v) ==
    CASE v.t = "undefined" -> FALSE
      [] v.t = "null" -> FALSE
      [] v.t = "string" -> v.s # <<>>
      [] v.t = "number" -> v.s # <<"0">>
      [] OTHER -> TRUE

\* The class \s of the regular expressions and the characters trim() removes
\* (the members that occur in the inputs of the model).
Whitespace == {" ", "\t", "\n"}

\* The class \d.
Digit == {"0", "1", "2", "3", "4", "5", "6", "7", "8", "9"}

LowerMap ==
    [A |-> "a", B |-> "b", C |-> "c", D |-> "d", E |-> "e", F |-> "f",
     G |-> "g", H |-> "h", I |-> "i", J |-> "j", K |-> "k", L |-> "l",
     M |-> "m", N |-> "n", O |-> "o", P |-> "p", Q |-> "q", R |-> "r",
     S |-> "s", T |-> "t", U |-> "u", V |-> "v", W |-> "w", X |-> "x",
     Y |-> "y", Z |-> "z"]

\* Canonicalisation of a character under the i flag.
ToLower(c) == IF c \in DOMAIN LowerMap THEN LowerMap[c] ELSE c

\* First index >= i whose character is outside class C (Len(s)+1 if none):
\* where a greedy C* that started at i stops.
RECURSIVE SkipWhile(_, _, _)
SkipWhile(s, i, C) ==
    IF i <= Len(s) /\ s[i] \in C THEN SkipWhile(s, i + 1, C) ELSE i

\* First index >= i whose character is in class C (Len(s)+1 if none).
RECURSIVE SkipUntil(_, _, _)
SkipUntil(s, i, C) ==
    IF i <= Len(s) /\ s[i] \notin C THEN SkipUntil(s, i + 1, C) ELSE i

\* Last index <= i whose character is outside class C (0 if none).
RECURSIVE SkipBack(_, _, _)
SkipBack(s, i, C) ==
    IF i >= 1 /\ s[i] \in C THEN SkipBack(s, i - 1, C) ELSE i

\* String.prototype.substring on 1-based inclusive indices.
Sub(s, from, to) == IF from > to THEN <<>> ELSE SubSeq(s, from, to)

\* The literal w occurs in s at index i.
StartsWith(s, i, w) ==
    /\ i >= 1
    /\ i + Len(w) - 1 <= Len(s)
    /\ \A k \in 1..Len(w) : s[i + k - 1] = w[k]

\* The literal w occurs in s at index i, letter case ignored.
StartsWithCI(s, i, w) ==
    /\ i >= 1
    /\ i + Len(w) - 1 <= Len(s)
    /\ \A k \in 1..Len(w) : ToLower(s[i + k - 1]) = ToLower(w[k])

\* String.prototype.trim.
Trim(s) ==
    LET a == SkipWhile(s, 1, Whitespace)
        b == SkipBack(s, Len(s), Whitespace)
    IN  Sub(s, a, b)

(***************************************************************************)
(* FAQData.  A value passed as FAQData is a record                         *)
(*   [t, title, items], items = [t, elems]                                 *)
(* and an entry of items is [t, question, answer, self]: its own type tag, *)
(* its question and answer properties (Undefined when absent) and whether  *)
(* it carries a property that references the containing object.            *)
(***************************************************************************)
NoItems == [t |-> "undefined", elems |-> <<>>]

ItemsArray(elems) == [t |-> "array", elems |-> elems]

NullData == [t |-> "null", title |-> Undefined, items |-> NoItems]

UndefinedData == [t |-> "undefined", title |-> Undefined, items |-> NoItems]

FAQData(title, items) == [t |-> "object", title |-> title, items |-> items]

FAQItem(q, a) ==
    [t |-> "object", question |-> q, answer |-> a, self |-> FALSE]

\* A function's outcome: it returns a value, or it throws.
Return(v) == [kind |-> "return", value |-> v]

\* (v is a placeholder of the type the function returns.)
Throw(v) == [kind |-> "throw", value |-> v]

NotCalled(v) == [kind |-> "none", value |-> v]

\* Property access item.question / item.answer: a TypeError on null and
\* undefined, undefined on a primitive, the property on an object.
CanRead(item) == item.t \notin {"null", "undefined"}

GetQuestion(item) == IF item.t = "object" THEN item.question ELSE Undefined

GetAnswer(item) == IF item.t = "object" THEN item.answer ELSE Undefined

\* A mutation of ItemOk: the two trim() tests are left out.
ItemOkNoTrim(item) ==
    /\ Truthy(GetQuestion(item))
    /\ Truthy(GetAnswer(item))
    /\ GetQuestion(item).t = "string"
    /\ GetAnswer(item).t = "string"

\* The callback of items.every in validateFAQData.
ItemOk(item) ==
    /\ Truthy(GetQuestion(item))
    /\ Truthy(GetAnswer(item))
    /\ GetQuestion(item).t = "string"
    /\ GetAnswer(item).t = "string"
    /\ Len(Trim(GetQuestion(item).s)) > 0
    /\ Len(Trim(GetAnswer(item).s)) > 0

\* Array.prototype.every with the callback above, from index i on: the
\* callback throws on an entry whose properties cannot be read, every stops
\* with false at the first entry the callback rejects, and is true at the end.
RECURSIVE Every(_, _)
Every(elems, i) ==
    IF i > Len(elems) THEN Return(TRUE)
    ELSE IF ~CanRead(elems[i]) THEN Throw(FALSE)
    ELSE IF ~ItemOk(elems[i]) THEN Return(FALSE)
    ELSE Every(elems, i + 1)

\* faqData.items: undefined on null/undefined is never read (the guard's
\* first operand short-circuits), and undefined on a primitive.
GetItems(d) == IF d.t = "object" THEN d.items ELSE NoItems

\* !faqData.items: the items values of the model that are not arrays are
\* undefined, null and truthy ones (a non-empty string, a non-zero number, a
\* plain object).
ItemsTruthy(items) == items.t \notin {"undefined", "null"}

validateFAQData(faqData) ==
    IF \/ faqData.t \in {"null", "undefined"}
       \/ ~ItemsTruthy(GetItems(faqData))
       \/ GetItems(faqData).t # "array"
    THEN Return(FALSE)
    ELSE Every(GetItems(faqData).elems, 1)

(***************************************************************************)
(* faqSectionRegex = /#{1,6}\s*.*(?:FAQ|Frequently Asked Questions).*$/gim *)
(*                                                                         *)
(* The expression is not anchored at a line start.  A match that starts at *)
(* index i takes up to six '#', then \s* (which may cross line breaks) up  *)
(* to the first character z that is not whitespace, and needs a keyword on *)
(* the rest of z's line; the trailing .*$ runs to the end of that line.    *)
(* Giving back '#' or whitespace never helps: what is given back lies on   *)
(* z's line before z, or on an earlier line that holds only '#' and        *)
(* whitespace after i.                                                     *)
(***************************************************************************)
KeywordFAQ == <<"F", "A", "Q">>

KeywordLong == <<"F", "r", "e", "q", "u", "e", "n", "t", "l", "y", " ", "A", "s", "k", "e", "d", " ", "Q", "u", "e", "s", "t", "i", "o", "n", "s">>

\* Where #{1,6} stops when it starts at i.
HashesEnd(s, i) ==
    LET h == SkipWhile(s, i, {"#"})
    IN  IF h > i + 6 THEN i + 6 ELSE h

\* Where #{1,6}\s* stops when it starts at i.
HeadingTextStart(s, i) == SkipWhile(s, HashesEnd(s, i), Whitespace)

\* (?:FAQ|Frequently Asked Questions) matches at j under the i flag.
KeywordAt(s, j) == StartsWithCI(s, j, KeywordFAQ) \/ StartsWithCI(s, j, KeywordLong)

\* faqSectionRegex matches with its first character at index i.
SectionMatchAt(s, i) ==
    /\ s[i] = "#"
    /\ LET z == HeadingTextStart(s, i)
           e == SkipUntil(s, z, {"\n"})
       IN  \E j \in z..(e - 1) : KeywordAt(s, j)

\* content.match(faqSectionRegex): null (found = FALSE) or the matches, of
\* which only the first is used: [index, end) is faqSectionMatch[0].
faqSectionMatch(s) ==
    LET starts == {i \in 1..Len(s) : SectionMatchAt(s, i)}
    IN  IF starts = {} THEN [found |-> FALSE, index |-> 0, end |-> 0]
        ELSE LET i == CHOOSE x \in starts : \A y \in starts : x <= y
             IN  [found |-> TRUE, index |-> i,
                  end |-> SkipUntil(s, HeadingTextStart(s, i), {"\n"})]

\* text.replace(/\(FAQ\)/gi, ''), from index i on.
RECURSIVE RemoveFAQSuffix(_, _)
RemoveFAQSuffix(s, i) ==
    IF i > Len(s) THEN <<>>
    ELSE IF StartsWithCI(s, i, <<"(", "F", "A", "Q", ")">>) THEN RemoveFAQSuffix(s, i + 5)
    ELSE <<s[i]>> \o RemoveFAQSuffix(s, i + 1)

\* faqSectionMatch[0].replace(/#{1,6}\s*/, '').replace(/\(FAQ\)/gi, '').trim()
\* (the match starts with '#', so the first replace removes its prefix).
faqTitle(m) ==
    Trim(RemoveFAQSuffix(Sub(m, HeadingTextStart(m, 1), Len(m)), 1))

(***************************************************************************)
(* qaRegex =                                                               *)
(*  /###\s*Q\d*:?\s*(.+?)\n+A\d*:?\s*(.+?)(?=\n###|\n\n[^A]|$)/gis         *)
(*                                                                         *)
(* With the s flag '.' matches line breaks, without the m flag '$' is the  *)
(* end of the input, and under the i flag Q, A and [^A] ignore case.       *)
(***************************************************************************)
\* Where the greedy \d*:?\s* stops when it starts at i.
MarkerEnd(s, i) ==
    LET d == SkipWhile(s, i, Digit)
        c == IF d <= Len(s) /\ s[d] = ":" THEN d + 1 ELSE d
    IN  SkipWhile(s, c, Whitespace)

\* \n+A matches at e with at least one character left for the answer group
\* (\n+ has to take every line break of the run: after it comes A).
AnswerMarkerAt(s, e) ==
    /\ e <= Len(s)
    /\ s[e] = "\n"
    /\ LET f == SkipWhile(s, e, {"\n"})
       IN  f + 1 <= Len(s) /\ ToLower(s[f]) = "a"

\* The lookahead (?=\n###|\n\n[^A]|$) holds at t.
AnswerEndAt(s, t) ==
    \/ t = Len(s) + 1
    \/ StartsWith(s, t, <<"\n", "#", "#", "#">>)
    \/ /\ StartsWith(s, t, <<"\n", "\n">>)
       /\ t + 2 <= Len(s)
       /\ ToLower(s[t + 2]) # "a"

\* The lazy (.+?) that starts at p: the first e > p where the rest of the
\* expression holds (0 if none).
RECURSIVE FirstAnswerMarker(_, _)
FirstAnswerMarker(s, e) ==
    IF e > Len(s) THEN 0
    ELSE IF AnswerMarkerAt(s, e) THEN e
    ELSE FirstAnswerMarker(s, e + 1)

RECURSIVE FirstAnswerEnd(_, _)
FirstAnswerEnd(s, t) ==
    IF AnswerEndAt(s, t) THEN t ELSE FirstAnswerEnd(s, t + 1)

\* qaRegex matches with its first character at index i.  The greedy prefix
\* \d*:?\s* after Q gives characters back, one at a time, until the rest of
\* the expression can match: the question group starts at the last index
\* p <= MarkerEnd that has an answer marker after it.
\* Result: [ok, qFrom, qTo, aFrom, aTo], both groups inclusive.
RECURSIVE QuestionStart(_, _, _)
QuestionStart(s, p, q0) ==
    IF p < q0 THEN 0
    ELSE IF p <= Len(s) /\ FirstAnswerMarker(s, p + 1) # 0 THEN p
    ELSE QuestionStart(s, p - 1, q0)

NoMatch == [ok |-> FALSE, qFrom |-> 0, qTo |-> 0, aFrom |-> 0, aTo |-> 0]

qaMatchAt(s, i) ==
    IF ~StartsWith(s, i, <<"#", "#", "#">>) THEN NoMatch
    ELSE
      LET q == SkipWhile(s, i + 3, Whitespace)
      IN  IF ~(q <= Len(s) /\ ToLower(s[q]) = "q") THEN NoMatch
          ELSE
            LET p == QuestionStart(s, MarkerEnd(s, q + 1), q + 1)
            IN  IF p = 0 THEN NoMatch
                ELSE
                  LET e == FirstAnswerMarker(s, p + 1)
                      f == SkipWhile(s, e, {"\n"})
                      amax == MarkerEnd(s, f + 1)
                      r == IF amax <= Len(s) THEN amax ELSE Len(s)
                      t == FirstAnswerEnd(s, r + 1)
                  IN  [ok |-> TRUE, qFrom |-> p, qTo |-> e - 1,
                       aFrom |-> r, aTo |-> t - 1]

\* A mutation of qaMatchAll: only the first match is returned.
RECURSIVE qaMatchFirstOnly(_, _)
qaMatchFirstOnly(s, i) ==
    IF i > Len(s) THEN <<>>
    ELSE LET m == qaMatchAt(s, i)
         IN  IF m.ok THEN <<m>> ELSE qaMatchFirstOnly(s, i + 1)

\* Array.from(faqContent.matchAll(qaRegex)): the matches from index i on,
\* each search resuming where the previous match ended.
RECURSIVE qaMatchAll(_, _)
qaMatchAll(s, i) ==
    IF i > Len(s) THEN <<>>
    ELSE LET m == qaMatchAt(s, i)
         IN  IF m.ok THEN <<m>> \o qaMatchAll(s, m.aTo + 1)
             ELSE qaMatchAll(s, i + 1)

(***************************************************************************)
(* cleanText and stripMarkdownLinks.                                       *)
(***************************************************************************)
\* text.replace(/C+/g, ' ') for a character class C, from index i on.
RECURSIVE ReplaceRuns(_, _, _)
ReplaceRuns(s, i, C) ==
    IF i > Len(s) THEN <<>>
    ELSE IF s[i] \in C
         THEN <<" ">> \o ReplaceRuns(s, SkipWhile(s, i, C), C)
         ELSE <<s[i]>> \o ReplaceRuns(s, i + 1, C)

cleanText(text) ==
    Trim(ReplaceRuns(ReplaceRuns(text, 1, {"\n"}), 1, Whitespace))

\* /\[([^\]]+)\]\([^)]+\)/ matches at i: the text runs to the first ']',
\* which '(' follows, and the url to the first ')'.  0 if it does not match,
\* else the index of the closing ')'.
LinkEndAt(s, i) ==
    IF ~(i <= Len(s) /\ s[i] = "[") THEN 0
    ELSE
      LET j == SkipUntil(s, i + 1, {"]"})
          k == SkipUntil(s, j + 2, {")"})
      IN  IF /\ j >= i + 2
             /\ j + 1 <= Len(s)
             /\ s[j + 1] = "("
             /\ k >= j + 3
             /\ k <= Len(s)
          THEN k ELSE 0

\* A mutation of StripLinksFrom: a '[' that opens no link is removed.
RECURSIVE StripLinksDropBracket(_, _)
StripLinksDropBracket(s, i) ==
    IF i > Len(s) THEN <<>>
    ELSE LET k == LinkEndAt(s, i)
         IN  IF k # 0
             THEN Sub(s, i + 1, SkipUntil(s, i + 1, {"]"}) - 1)
                    \o StripLinksDropBracket(s, k + 1)
             ELSE IF s[i] = "["
             THEN StripLinksDropBracket(s, i + 1)
             ELSE <<s[i]>> \o StripLinksDropBracket(s, i + 1)

\* text.replace(/\[([^\]]+)\]\([^)]+\)/g, '$1'), from index i on.
RECURSIVE StripLinksFrom(_, _)
StripLinksFrom(s, i) ==
    IF i > Len(s) THEN <<>>
    ELSE LET k == LinkEndAt(s, i)
         IN  IF k # 0
             THEN Sub(s, i + 1, SkipUntil(s, i + 1, {"]"}) - 1)
                    \o StripLinksFrom(s, k + 1)
             ELSE <<s[i]>> \o StripLinksFrom(s, i + 1)

stripMarkdownLinks(text) == StripLinksFrom(text, 1)

(***************************************************************************)
(* parseFAQFromContent.                                                    *)
(***************************************************************************)
\* matches.map(match => ({question, answer: stripMarkdownLinks(answer)}))
MatchItem(s, m) ==
    FAQItem(Str(cleanText(Sub(s, m.qFrom, m.qTo))),
            Str(stripMarkdownLinks(cleanText(Sub(s, m.aFrom, m.aTo)))))

\* A mutation of ContentGuard: the typeof test is left out.
ContentGuardNoTypeof(c) == ~Truthy(c)

\* if (!content || typeof content !== 'string') return null;
ContentGuard(c) == ~Truthy(c) \/ c.t # "string"

\* content.indexOf(w) for a w that occurs in content.
IndexOf(s, w) ==
    LET at == {i \in 1..Len(s) : StartsWith(s, i, w)}
    IN  CHOOSE x \in at : \A y \in at : x <= y

\* The function body after the guard, for a string s.
ParseString(s) ==
    LET sec == faqSectionMatch(s)
    IN  IF ~sec.found THEN Return(NullData)
        ELSE
          LET head == Sub(s, sec.index, sec.end - 1)
              faqSectionIndex == IndexOf(s, head)
              faqContent == Sub(s, faqSectionIndex, Len(s))
              matches == qaMatchAll(faqContent, 1)
          IN  IF Len(matches) = 0 THEN Return(NullData)
              ELSE Return(FAQData(Str(faqTitle(head)),
                     ItemsArray([k \in 1..Len(matches) |->
                                   MatchItem(faqContent, matches[k])])))

\* content.match is not a function when content is not a string: past the
\* guard such a value throws a TypeError.
parseFAQFromContent(c) ==
    IF ContentGuard(c) THEN Return(NullData)
    ELSE IF c.t # "string" THEN Throw(NullData)
    ELSE ParseString(c.s)

(***************************************************************************)
(* generateFAQSchema and generateFAQSchemaItems.  A schema value is a      *)
(* record [t, context, type, mainEntity] (t = "null" for null), a list of  *)
(* schema items a record [t, elems] (t = "null" for null).                 *)
(***************************************************************************)
\* String(value).
String(v) ==
    CASE v.t = "undefined" -> <<"u", "n", "d", "e", "f", "i", "n", "e", "d">>
      [] v.t = "null" -> <<"n", "u", "l", "l">>
      [] v.t = "array" -> <<>>
      [] v.t = "object" -> <<"[", "o", "b", "j", "e", "c", "t", " ", "O", "b", "j", "e", "c", "t", "]">>
      [] OTHER -> v.s

\* A mutation of QuestionNode: the two texts are trimmed.
QuestionNodeTrimmed(item) ==
    [type |-> "Question",
     name |-> Trim(String(item.question)),
     acceptedAnswer |-> [type |-> "Answer", text |-> Trim(String(item.answer))]]

\* The callback of map: the Question node of a kept entry.
QuestionNode(item) ==
    [type |-> "Question",
     name |-> String(item.question),
     acceptedAnswer |-> [type |-> "Answer", text |-> String(item.answer)]]

\* A mutation of ItemKept: the test of item.answer is left out.
ItemKeptQuestionOnly(item) ==
    /\ item.t \notin {"null", "undefined"}
    /\ item.t \in {"object", "null"}
    /\ Truthy(GetQuestion(item))

\* The callback of filter: item && typeof item === 'object' &&
\* item.question && item.answer (typeof null is 'object'; the string and
\* number entries of the model are truthy).
ItemKept(item) ==
    /\ item.t \notin {"null", "undefined"}
    /\ item.t \in {"object", "null"}
    /\ Truthy(GetQuestion(item))
    /\ Truthy(GetAnswer(item))

\* items.filter(...).map(...), from index i on.
RECURSIVE FilterMap(_, _)
FilterMap(elems, i) ==
    IF i > Len(elems) THEN <<>>
    ELSE IF ItemKept(elems[i])
         THEN <<QuestionNode(elems[i])>> \o FilterMap(elems, i + 1)
         ELSE FilterMap(elems, i + 1)

NullSchema == [t |-> "null", context |-> "", type |-> "", mainEntity |-> <<>>]

FAQPageSchema(mainEntity) ==
    [t |-> "object", context |-> "https://schema.org", type |-> "FAQPage",
     mainEntity |-> mainEntity]

NullItems == [t |-> "null", elems |-> <<>>]

\* faqData.items.length === 0: the items values of the model that are not
\* arrays are a non-empty string and values without a length.
ItemsLengthZero(items) == items.t = "array" /\ items.elems = <<>>

\* if (!faqData || !faqData.items || faqData.items.length === 0)
SchemaGuard(faqData) ==
    \/ faqData.t \in {"null", "undefined"}
    \/ ~ItemsTruthy(GetItems(faqData))
    \/ ItemsLengthZero(GetItems(faqData))

\* The try block of generateFAQSchema: items.filter is not a function on a
\* value that is not an array.
SchemaTry(faqData) ==
    IF GetItems(faqData).t # "array" THEN Throw(NullSchema)
    ELSE LET mainEntity == FilterMap(GetItems(faqData).elems, 1)
         IN  IF Len(mainEntity) = 0 THEN Return(NullSchema)
             ELSE Return(FAQPageSchema(mainEntity))

\* A mutation of generateFAQSchema: the try block has no catch.
generateFAQSchemaNoCatch(faqData) ==
    IF SchemaGuard(faqData) THEN Return(NullSchema) ELSE SchemaTry(faqData)

generateFAQSchema(faqData) ==
    IF SchemaGuard(faqData) THEN Return(NullSchema)
    ELSE IF SchemaTry(faqData).kind = "throw" THEN Return(NullSchema)
    ELSE SchemaTry(faqData)

\* A mutation of ItemsTry: the filtered list is returned even when empty.
ItemsTryNoEmptyCheck(faqData) ==
    IF GetItems(faqData).t # "array" THEN Throw(NullItems)
    ELSE Return(ItemsArray(FilterMap(GetItems(faqData).elems, 1)))

\* The try block of generateFAQSchemaItems.
ItemsTry(faqData) ==
    IF GetItems(faqData).t # "array" THEN Throw(NullItems)
    ELSE LET items == FilterMap(GetItems(faqData).elems, 1)
         IN  IF Len(items) > 0 THEN Return(ItemsArray(items))
             ELSE Return(NullItems)

\* A mutation of generateFAQSchemaItems: the try block has no catch.
generateFAQSchemaItemsNoCatch(faqData) ==
    IF SchemaGuard(faqData) THEN Return(NullItems) ELSE ItemsTry(faqData)

generateFAQSchemaItems(faqData) ==
    IF SchemaGuard(faqData) THEN Return(NullItems)
    ELSE IF ItemsTry(faqData).kind = "throw" THEN Return(NullItems)
    ELSE ItemsTry(faqData)

(***************************************************************************)
(* generateBlogPostSchemaData, for a published post with title,            *)
(* description and a valid pubDate.  The main schema is kept as its        *)
(* "@context", its "@type" and which of the two code paths built it; the   *)
(* value returned is a record [t, main, faq]: t = "object" for the main    *)
(* schema alone and t = "array" for [mainSchema, faqSchema].               *)
(***************************************************************************)
SchemaTypes == {"Article", "BlogPosting"}

\* generateArticleSchema / generateBlogPostingSchema.
MainSchema(type) ==
    [context |-> "https://schema.org", type |-> type, form |-> "full"]

\* The schema built in the catch block when the generator threw.
FallbackSchema(type) ==
    [context |-> "https://schema.org", type |-> type, form |-> "fallback"]

NoResult == [t |-> "none", main |-> MainSchema("Article"), faq |-> NullSchema]

\* A mutation of ComposeResult: the FAQ schema is returned in place of the
\* pair.
ComposeResultFaqOnly(type, mainThrows, faqSchema) ==
    LET main == IF mainThrows THEN FallbackSchema(type) ELSE MainSchema(type)
    IN  IF faqSchema.t = "object"
        THEN [t |-> "object", main |-> main, faq |-> faqSchema]
        ELSE [t |-> "object", main |-> main, faq |-> NullSchema]

\* The second try block: the main schema, or the fallback schema when the
\* generator throws, alone or followed by a truthy faqSchema.
ComposeResult(type, mainThrows, faqSchema) ==
    LET main == IF mainThrows THEN FallbackSchema(type) ELSE MainSchema(type)
    IN  IF faqSchema.t = "object"
        THEN [t |-> "array", main |-> main, faq |-> faqSchema]
        ELSE [t |-> "object", main |-> main, faq |-> NullSchema]

(***************************************************************************)
(* Inputs.  A document is a sequence of blocks, rendered with a blank line *)
(* between consecutive blocks, as the articles of the test suite are       *)
(* written.                                                                *)
(***************************************************************************)
BlockText ==
    [H1 |-> <<"#", " ", "F", "A", "Q">>,
     H2 |-> <<"#", "#", " ", "F", "A", "Q">>,
     H3 |-> <<"#", "#", "#", " ", "F", "A", "Q">>,
     H4 |-> <<"#", "#", "#", "#", " ", "F", "A", "Q">>,
     H5 |-> <<"#", "#", "#", "#", "#", " ", "F", "A", "Q">>,
     H6 |-> <<"#", "#", "#", "#", "#", "#", " ", "F", "A", "Q">>,
     HLower |-> <<"#", "#", " ", "f", "a", "q">>,
     HLong |-> <<"#", "#", " ", "F", "r", "e", "q", "u", "e", "n", "t", "l", "y", " ", "A", "s", "k", "e", "d", " ", "Q", "u", "e", "s", "t", "i", "o", "n", "s">>,
     HMixed |-> <<"#", "#", " ", "f", "r", "e", "q", "u", "e", "n", "t", "l", "y", " ", "a", "s", "k", "e", "d", " ", "Q", "U", "E", "S", "T", "I", "O", "N", "S">>,
     HSuffix |-> <<"#", "#", " ", "H", "e", "l", "p", " ", "(", "F", "A", "Q", ")">>,
     HSection |-> <<"#", "#", "#", " ", "F", "A", "Q", " ", "S", "e", "c", "t", "i", "o", "n">>,
     HSuffixLower |-> <<"#", "#", " ", "H", "e", "l", "p", " ", "(", "f", "a", "q", ")">>,
     HMid |-> <<"#", "#", " ", "O", "u", "r", " ", "(", "f", "a", "q", ")", " ", "H", "e", "l", "p">>,
     HPad |-> <<"#", "#", " ", " ", "\t", "F", "A", "Q", " ", " ">>,
     HB |-> <<"#", "#", " ", "M", "o", "r", "e", " ", "F", "A", "Q">>,
     O |-> <<"#", "#", " ", "O", "t", "h", "e", "r">>,
     U |-> <<"z", "z">>,
     Prose |-> <<"s", "e", "e", " ", "t", "h", "e", " ", "F", "A", "Q">>,
     ProseHash |-> <<"s", "e", "e", " ", "#", "1", " ", "F", "A", "Q">>,
     P1 |-> <<"#", "#", "#", " ", "Q", "1", ":", " ", "x", "\n", "A", "1", ":", " ", "y">>,
     P2 |-> <<"#", "#", "#", " ", "Q", "2", ":", " ", "w", "\n", "A", "2", ":", " ", "v">>,
     UQ |-> <<"#", "#", "#", " ", "Q", "3", ":", " ", "u">>,
     QE |-> <<"#", "#", "#", " ", "Q", "4", ":", " ", "\n", "A", "4", ":", " ", "t">>,
     PL |-> <<"#", "#", "#", " ", "Q", ":", " ", "[", "k", "]", "(", "m", ")", "?", "\n", "A", ":", " ", "[", "k", "]", "(", "m", ")", " ", "o", "r", " ", "[", "n", "]", "(", "m", ")", ".">>,
     PP |-> <<"Q", ":", " ", "x", "\n", "A", ":", " ", "y">>,
     PH |-> <<"#", "#", "#", "#", " ", "Q", ":", " ", "x", "\n", "A", ":", " ", "y">>,
     PN |-> <<"#", "#", "#", " ", "Q", "1", ":", " ", "x", "\n", "A", "1", ":", " ", "y", "\n", "#", "#", "#", " ", "Q", "2", ":", " ", "w", "\n", "A", "2", ":", " ", "v">>,
     PS |-> <<"#", "#", "#", " ", "Q", "1", ":", " ", "x", " ", "[", "u", "?", "\n", "A", "1", ":", " ", "y", " ", "[", "k", " ", "(", "v", " ", "\\", "w", " ", "*", "z", "*", ".">>,
     PPar |-> <<"#", "#", "#", " ", "Q", "1", ":", " ", "x", "\n", "A", "1", ":", " ", "y", "\n", "\n", "a", "n", "d", " ", " ", "z", "\t", "w">>,
     PW |-> <<"#", "#", "#", " ", "Q", "1", ":", " ", "x", "\n", "A", "1", ":", " ", "y", " ", "[", " ", "k", " ", "]", "(", "m", ")", " ", "z">>,
     PT |-> <<"#", "#", "#", " ", "Q", "1", ":", " ", "<", "i", ">", "x", "<", "/", "i", ">", "?", "\n", "A", "1", ":", " ", "<", "a", " ", " ", "b", "=", "\"", "[", "k", "]", "(", "m", ")", "\"", ">", "y", "<", "/", "a", ">">>,
     PB |-> <<"#", "#", "#", " ", "Q", "1", ":", " ", "x", "\n", "A", "1", ":", " ", "[", " ", "]", "(", "m", ")">>,
     PLL |-> <<"#", "#", "#", " ", "Q", "1", ":", " ", "x", "\n", "A", "1", ":", " ", "[", "[", "k", "]", "(", "m", ")", "]", "(", "n", ")">>,
     PAdj |-> <<"#", "#", "#", " ", "Q", "1", ":", " ", "x", "\n", "A", "1", ":", " ", "[", "k", "]", "(", "m", ")", "[", "n", "]", "(", "m", ")">>,
     PF1 |-> <<"#", "#", "#", " ", "Q", "1", ":", "x", "\n", "A", "1", ":", "y">>,
     PF2 |-> <<"#", "#", "#", " ", "Q", ":", " ", "x", "\n", "A", ":", " ", "y">>,
     PF3 |-> <<"#", "#", "#", " ", "Q", "1", " ", ":", " ", "x", "\n", "A", "1", " ", ":", " ", "y">>,
     PF4 |-> <<"#", "#", "#", " ", "Q", " ", "x", "\n", "A", " ", "y">>,
     PNest |-> <<"#", "#", "#", " ", "Q", "1", ":", " ", "x", "\n", "A", "1", ":", " ", "y", "\n", "\n", "#", "#", "#", "#", " ", "S", "\n", "-", " ", "l", "\n", "\n", "#", "#", "#", "#", "#", " ", "T", "\n", "z">>,
     APar |-> <<"A", "n", "d", " ", "m", "o", "r", "e">>]

\* Headings of level 1 to 6 that mention FAQ or Frequently Asked Questions.
FAQHeadings ==
    {"H1", "H2", "H3", "H4", "H5", "H6", "HLower", "HLong", "HMixed",
     "HSuffix", "HSuffixLower", "HMid", "HPad", "HSection", "HB"}

\* First lines that are no such heading.
OtherFirstLines == {"O", "U", "Prose", "ProseHash"}

\* Complete, well-formed question/answer pairs: on a level-3 sub-heading, on
\* a plain line, on a level-4 sub-heading.
PairBlocks == {"P1", "P2", "PL", "PP", "PH"}

\* Pairs that exercise the text cleanup: two pairs without a blank line
\* between them, unclosed brackets with a backslash and asterisks, an answer
\* of two paragraphs, a link whose text has spaces around it, raw HTML tags,
\* a link whose text is one space, a link inside a link text, two adjacent
\* links.
CleanupBlocks == {"PN", "PS", "PPar", "PW", "PT", "PB", "PLL", "PAdj"}

\* Pairs in other marker formats (no space after the colon, no number,
\* spaces on both sides of the colon, no number and no colon) and an answer
\* followed by deeper sub-headings, a list item and text.
FormatBlocks == {"PF1", "PF2", "PF3", "PF4", "PNest"}

\* Documents in which a paragraph that begins with the letter A follows the
\* answer after a blank line.
ParagraphDocs == {<<"H2", "P1", "APar">>, <<"H2", "P1", "APar", "P2">>}

\* The blocks that follow the heading "## FAQ" in the generated documents.
BodyBlocks == {"P1", "P2", "U", "O", "HB", "UQ", "QE"}

RECURSIVE BlockSeqs(_, _)
BlockSeqs(B, n) ==
    IF n = 0 THEN {<<>>}
    ELSE LET shorter == BlockSeqs(B, n - 1)
         IN  shorter \cup {Append(d, b) : d \in {x \in shorter : Len(x) = n - 1}, b \in B}

Docs ==
    {<<"H2">> \o body : body \in BlockSeqs(BodyBlocks, MaxBlocks)}
      \cup {<<h>> \o body : h \in FAQHeadings \cup OtherFirstLines,
                            body \in {<<>>} \cup {<<p>> : p \in PairBlocks}}
      \cup {<<"H2">> \o body :
              body \in UNION {{<<b>>, <<"P1", b>>, <<b, "P2">>} :
                                  b \in CleanupBlocks \cup FormatBlocks}}
      \cup ParagraphDocs
      \cup {<<>>}

RECURSIVE RenderDoc(_)
RenderDoc(d) ==
    IF Len(d) = 0 THEN <<>>
    ELSE IF Len(d) = 1 THEN BlockText[d[1]]
    ELSE BlockText[d[1]] \o <<"\n", "\n">> \o RenderDoc(Tail(d))

\* Values that are not strings.
NonStrings == {Null, Undefined, Num(<<"0">>), Num(<<"1", "2", "3">>), ObjectValue, ArrayValue}

\* Question and answer values of externally constructed items.
GoodText == Str(<<"x", "?">>)

\* A text with HTML tags, a newline, a tab, surrounding whitespace and
\* characters that JSON or HTML would escape.
RichText == Str(<<" ", "<", "b", ">", "\"", "x", "\"", " ", "&", " ", "y", "<", "/", "b", ">", "\n", "\t", "z", " ">>)

BadValues ==
    {Str(<<>>), Str(<<" ", " ", " ">>), Str(<<"\n", "\t", " ", "\n">>), Null, Undefined,
     Num(<<"0">>), Num(<<"1", "2", "3">>), ArrayValue, ObjectValue}

Entries ==
    {FAQItem(GoodText, GoodText),
     [FAQItem(GoodText, GoodText) EXCEPT !.self = TRUE],
     FAQItem(RichText, GoodText),
     FAQItem(GoodText, RichText),
     FAQItem(Undefined, Undefined)}
      \cup {FAQItem(b, GoodText) : b \in BadValues}
      \cup {FAQItem(GoodText, b) : b \in BadValues}
      \cup {[t |-> k, question |-> Undefined, answer |-> Undefined, self |-> FALSE] :
              k \in {"null", "undefined", "string", "number"}}

RECURSIVE EntrySeqs(_)
EntrySeqs(n) ==
    IF n = 0 THEN {<<>>}
    ELSE LET shorter == EntrySeqs(n - 1)
         IN  shorter \cup {Append(d, b) : d \in {x \in shorter : Len(x) = n - 1}, b \in Entries}

Titles == {Undefined, Str(<<"T">>)}

\* Four entries, the second without a question and the third without an
\* answer.
MixedData ==
    FAQData(Undefined,
            ItemsArray(<<FAQItem(GoodText, GoodText),
                         FAQItem(Str(<<>>), GoodText),
                         FAQItem(GoodText, Str(<<>>)),
                         FAQItem(RichText, RichText)>>))

ExternalData ==
    {NullData, UndefinedData, MixedData}
      \cup {FAQData(ti, [t |-> k, elems |-> <<>>]) :
              ti \in Titles, k \in {"undefined", "null", "string", "number", "object"}}
      \cup {FAQData(ti, ItemsArray(es)) : ti \in Titles, es \in EntrySeqs(MaxItems)}

(***************************************************************************)
(* The state machine: one article render at a time.  The blog-post schema  *)
(* composer parses the article body and validates a non-null result; the   *)
(* validator is also called on data the parser never produced.             *)
(***************************************************************************)
Init ==
    /\ doc = <<>>
    /\ content = Undefined
    /\ parsed = NotCalled(NullData)
    /\ data = NullData
    /\ valid = NotCalled(FALSE)
    /\ schema = NotCalled(NullSchema)
    /\ schemaItems = NotCalled(NullItems)
    /\ schemaType = "Article"
    /\ result = NoResult
    /\ pc = "idle"

\* parseFAQFromContent(content) on a document.
ParseDocument ==
    /\ pc = "idle"
    /\ \E d \in Docs :
         /\ doc' = d
         /\ content' = Str(RenderDoc(d))
         /\ parsed' = parseFAQFromContent(Str(RenderDoc(d)))
    /\ pc' = "parsed"
    /\ UNCHANGED <<data, valid, schema, schemaItems, schemaType, result>>

\* parseFAQFromContent(content) on a value that is not a string.
ParseNonString ==
    /\ pc = "idle"
    /\ \E c \in NonStrings :
         /\ content' = c
         /\ parsed' = parseFAQFromContent(c)
    /\ pc' = "parsed"
    /\ UNCHANGED <<doc, data, valid, schema, schemaItems, schemaType, result>>

\* if (faqData && validateFAQData(faqData)) of the composer.
ValidateParsed ==
    /\ pc = "parsed"
    /\ parsed.kind = "return"
    /\ parsed.value.t = "object"
    /\ data' = parsed.value
    /\ valid' = validateFAQData(parsed.value)
    /\ pc' = "validated"
    /\ UNCHANGED <<doc, content, parsed, schema, schemaItems, schemaType, result>>

\* validateFAQData(data) on externally constructed data.
ValidateExternal ==
    /\ pc = "idle"
    /\ \E d \in ExternalData :
         /\ data' = d
         /\ valid' = validateFAQData(d)
    /\ pc' = "validated"
    /\ UNCHANGED <<doc, content, parsed, schema, schemaItems, schemaType, result>>

\* faqSchema = generateFAQSchema(faqData) of the composer, on parsed data
\* the validator accepted.
GenerateParsed ==
    /\ pc = "validated"
    /\ parsed.kind = "return"
    /\ valid = Return(TRUE)
    /\ schema' = generateFAQSchema(data)
    /\ pc' = "generated"
    /\ UNCHANGED <<doc, content, parsed, data, valid, schemaItems, schemaType, result>>

\* generateFAQSchema(data) on externally constructed data.
GenerateExternal ==
    /\ pc = "idle"
    /\ \E d \in ExternalData :
         /\ data' = d
         /\ schema' = generateFAQSchema(d)
    /\ pc' = "generated"
    /\ UNCHANGED <<doc, content, parsed, valid, schemaItems, schemaType, result>>

\* A mutation of GenerateItems: the kept entries are filtered in place, so
\* data.items loses the entries the filter drops.
GenerateItemsInPlace ==
    /\ pc = "generated"
    /\ parsed.kind = "none"
    /\ schemaItems' = generateFAQSchemaItems(data)
    /\ data' = IF data.t = "object" /\ data.items.t = "array"
               THEN [data EXCEPT !.items.elems = SelectSeq(@, ItemKept)]
               ELSE data
    /\ pc' = "itemsGenerated"
    /\ UNCHANGED <<doc, content, parsed, valid, schema, schemaType, result>>

\* generateFAQSchemaItems(data) on externally constructed data, next to
\* generateFAQSchema(data).
GenerateItems ==
    /\ pc = "generated"
    /\ parsed.kind = "none"
    /\ schemaItems' = generateFAQSchemaItems(data)
    /\ pc' = "itemsGenerated"
    /\ UNCHANGED <<doc, content, parsed, data, valid, schema, schemaType, result>>

\* The FAQ step of the composer is over: the parser returned null, the
\* validator rejected the parsed data, or the generator was called.
FaqStepDone ==
    /\ Truthy(content)
    /\ \/ pc = "parsed" /\ ~(parsed.kind = "return" /\ parsed.value.t = "object")
       \/ pc = "validated" /\ parsed.kind = "return" /\ valid # Return(TRUE)
       \/ pc = "generated" /\ parsed.kind = "return"

\* The local faqSchema after the FAQ step: null unless the generator was
\* called and returned; the catch block leaves it null.
faqSchema ==
    IF pc = "generated" /\ schema.kind = "return" THEN schema.value ELSE NullSchema

\* The rest of generateBlogPostSchemaData after the FAQ step.
Compose ==
    /\ FaqStepDone
    /\ \E type \in SchemaTypes, mainThrows \in BOOLEAN :
         /\ schemaType' = type
         /\ result' = ComposeResult(type, mainThrows, faqSchema)
    /\ pc' = "composed"
    /\ UNCHANGED <<doc, content, parsed, data, valid, schema, schemaItems>>

\* generateBlogPostSchemaData without content: if (content) skips the FAQ
\* step.
ComposeWithoutContent ==
    /\ pc = "idle"
    /\ \E c \in {Undefined, Str(<<>>)}, type \in SchemaTypes, mainThrows \in BOOLEAN :
         /\ content' = c
         /\ schemaType' = type
         /\ result' = ComposeResult(type, mainThrows, NullSchema)
    /\ pc' = "composed"
    /\ UNCHANGED <<doc, parsed, data, valid, schema, schemaItems>>

\* The render ends; the next one starts from scratch (no state is kept).
Finish ==
    /\ pc \in {"parsed", "validated", "generated", "itemsGenerated", "composed"}
    /\ doc' = <<>>
    /\ content' = Undefined
    /\ parsed' = NotCalled(NullData)
    /\ data' = NullData
    /\ valid' = NotCalled(FALSE)
    /\ schema' = NotCalled(NullSchema)
    /\ schemaItems' = NotCalled(NullItems)
    /\ schemaType' = "Article"
    /\ result' = NoResult
    /\ pc' = "idle"

Next ==
    \/ ParseDocument
    \/ ParseNonString
    \/ ValidateParsed
    \/ ValidateExternal
    \/ GenerateParsed
    \/ GenerateExternal
    \/ GenerateItems
    \/ Compose
    \/ ComposeWithoutContent
    \/ Finish

Spec == Init /\ [][Next]_vars

(***************************************************************************)
(* Properties.                                                             *)
(***************************************************************************)
\* A value is a string with a character that is not whitespace.
NonBlankString(v) == v.t = "string" /\ \E k \in 1..Len(v.s) : v.s[k] \notin Whitespace

\* validateFAQData has just been called on an object whose items is an array.
ValidatedArray ==
    /\ pc = "validated"
    /\ data.t = "object"
    /\ data.items.t = "array"

\* C1: validateFAQData returns false for every data object whose items is an
\* empty array, with or without a title.
C1_EmptyItemsRejected ==
    (ValidatedArray /\ Len(data.items.elems) = 0) => valid = Return(FALSE)

\* C2: validateFAQData never throws and always returns a boolean, whatever
\* the input: null, undefined, no items, items that is not an array, entries
\* that are null, undefined, strings, numbers or empty objects, entries that
\* reference the containing object.
C2_ValidateNeverThrows ==
    pc = "validated" => (valid.kind = "return" /\ valid.value \in BOOLEAN)

\* C3: for a non-empty items array of objects, validateFAQData returns true
\* exactly when the question and the answer of every entry are strings that
\* are not blank; one violating entry at any position makes it false, and
\* neither the title nor an extra property of an entry changes the result.
C3_ValidIffAllNonBlankStrings ==
    (/\ ValidatedArray
     /\ Len(data.items.elems) > 0
     /\ \A k \in 1..Len(data.items.elems) : data.items.elems[k].t = "object")
    => valid = Return(\A k \in 1..Len(data.items.elems) :
                        /\ NonBlankString(data.items.elems[k].question)
                        /\ NonBlankString(data.items.elems[k].answer))

\* C3, witness: a titled array whose first entry is valid and carries a
\* self-reference and whose last entry has a whitespace-only question is
\* rejected.
C3_Witness ==
    /\ ValidatedArray
    /\ data.title.t = "string"
    /\ Len(data.items.elems) = 2
    /\ data.items.elems[1] = [FAQItem(GoodText, GoodText) EXCEPT !.self = TRUE]
    /\ data.items.elems[2] = FAQItem(Str(<<" ", " ", " ">>), GoodText)
    /\ valid = Return(FALSE)

\* The item a complete pair block is expected to yield.
PairItem(b) ==
    CASE b = "P1" -> FAQItem(Str(<<"x">>), Str(<<"y">>))
      [] b = "P2" -> FAQItem(Str(<<"w">>), Str(<<"v">>))
      [] b = "PL" -> FAQItem(Str(<<"k", "?">>), Str(<<"k", " ", "o", "r", " ", "n", ".">>))
      [] b = "PP" -> FAQItem(Str(<<"x">>), Str(<<"y">>))
      [] b = "PH" -> FAQItem(Str(<<"x">>), Str(<<"y">>))

\* The blocks of d that are among B, in document order.
RECURSIVE Keep(_, _)
Keep(d, B) ==
    IF Len(d) = 0 THEN <<>>
    ELSE IF d[1] \in B THEN <<d[1]>> \o Keep(Tail(d), B)
    ELSE Keep(Tail(d), B)

\* The items the pair blocks of d are expected to yield.
PairItems(d) == [k \in 1..Len(d) |-> PairItem(d[k])]

\* parseFAQFromContent has just returned from a document.
ParsedDoc == pc = "parsed" /\ content.t = "string" /\ parsed.kind = "return"

\* d is the heading "## FAQ" with complete pairs, then unrelated prose or a
\* heading that is no FAQ heading at position k, then a second FAQ heading
\* with complete pairs of its own.
TwoSections(d, k) ==
    /\ k >= 3
    /\ Len(d) >= k + 2
    /\ d[1] = "H2"
    /\ \A j \in 2..(k - 1) : d[j] \in {"P1", "P2"}
    /\ d[k] \in {"U", "O"}
    /\ d[k + 1] = "HB"
    /\ \A j \in (k + 2)..Len(d) : d[j] \in {"P1", "P2"}

\* C4: of two FAQ-headed sections separated by unrelated prose or a non-FAQ
\* heading, the parser returns the title of the first heading and only the
\* pairs of the first section.
C4_FirstSectionOnly ==
    \A k \in 3..(MaxBlocks + 1) :
        (ParsedDoc /\ TwoSections(doc, k))
        => parsed.value = FAQData(Str(<<"F", "A", "Q">>),
                                  ItemsArray(PairItems(SubSeq(doc, 2, k - 1))))

\* d is the heading "## FAQ" followed by complete pairs mixed with at least
\* one question that has no answer and one answer whose question is empty.
MixedSection(d) ==
    /\ Len(d) >= 4
    /\ d[1] = "H2"
    /\ \A j \in 2..Len(d) : d[j] \in {"P1", "P2", "UQ", "QE"}
    /\ \E j \in 2..Len(d) : d[j] \in {"P1", "P2"}
    /\ \E j \in 2..Len(d) : d[j] = "UQ"
    /\ \E j \in 2..Len(d) : d[j] = "QE"

\* C5: a question without an answer and an answer whose question is empty
\* yield no item: of a section that mixes them with complete pairs, exactly
\* the complete pairs are returned, each with its own texts.
C5_OnlyCompletePairs ==
    (ParsedDoc /\ MixedSection(doc))
    => /\ parsed.value.t = "object"
       /\ parsed.value.items.elems = PairItems(Keep(Tail(doc), {"P1", "P2"}))

\* C6: every non-null result of the parser has at least one item, every
\* question and answer is a string that is not blank, and validateFAQData of
\* the result is true.
C6_ParsedIsValid ==
    (ParsedDoc /\ parsed.value.t = "object")
    => /\ Len(parsed.value.items.elems) >= 1
       /\ \A k \in 1..Len(parsed.value.items.elems) :
            /\ NonBlankString(parsed.value.items.elems[k].question)
            /\ NonBlankString(parsed.value.items.elems[k].answer)
       /\ validateFAQData(parsed.value) = Return(TRUE)

\* C7: every markdown link [text](url) of the source question and of the
\* source answer of a retained item, several links in a field included, is
\* replaced by its text alone.
C7_LinksStripped ==
    (ParsedDoc /\ Len(doc) = 2 /\ doc[1] \in FAQHeadings /\ doc[2] = "PL")
    => /\ parsed.value.t = "object"
       /\ parsed.value.items.elems = <<PairItem("PL")>>

\* C8: a heading of level 1 to 6 that mentions FAQ or Frequently Asked
\* Questions in any letter case, followed by at least one well-formed pair
\* (the question on a plain line or on a sub-heading), gives a non-null
\* result with at least one item.
C8_HeadingAndPairParsed ==
    (/\ ParsedDoc
     /\ Len(doc) >= 2
     /\ doc[1] \in FAQHeadings
     /\ \E j \in 2..Len(doc) : doc[j] \in PairBlocks)
    => /\ parsed.value.t = "object"
       /\ Len(parsed.value.items.elems) >= 1

\* C9: the parser returns null for every input that is not a string and for
\* the empty string.
C9_NullForNonStringOrEmpty ==
    (pc = "parsed" /\ (content.t # "string" \/ content.s = <<>>))
    => parsed = Return(NullData)

\* C9, witness: the parser was called on the number 123 and returned null.
C9_Witness ==
    /\ pc = "parsed"
    /\ content = Num(<<"1", "2", "3">>)
    /\ parsed = Return(NullData)

\* Index i starts a line of s that is a markdown heading of level 1 to 6
\* whose text mentions FAQ or Frequently Asked Questions.
FAQHeadingLineAt(s, i) ==
    /\ i = 1 \/ s[i - 1] = "\n"
    /\ s[i] = "#"
    /\ SkipWhile(s, i, {"#"}) - i <= 6
    /\ \E j \in i..(SkipUntil(s, i, {"\n"}) - 1) : KeywordAt(s, j)

\* C10: when no line of the input is a markdown heading (1 to 6 '#' at the
\* start of the line) that mentions FAQ or Frequently Asked Questions, the
\* parser returns null, even when the text holds Q/A lines or mentions FAQ
\* in prose.
C10_NullWithoutHeading ==
    (/\ pc = "parsed"
     /\ content.t = "string"
     /\ \A i \in 1..Len(content.s) : ~FAQHeadingLineAt(content.s, i))
    => parsed = Return(NullData)

\* The text of a heading line: its leading '#' markers and the whitespace
\* around the rest removed.
HeadingText(line) == Trim(Sub(line, SkipWhile(line, 1, {"#"}), Len(line)))

\* t ends with the literal w, letter case ignored.
EndsWithCI(t, w) == Len(t) >= Len(w) /\ StartsWithCI(t, Len(t) - Len(w) + 1, w)

\* The title as claimed: a trailing "(FAQ)" is removed and the rest trimmed,
\* any other heading text is the title verbatim.
SuffixStrippedTitle(line) ==
    LET t == HeadingText(line)
    IN  IF EndsWithCI(t, <<"(", "F", "A", "Q", ")">>) THEN Trim(Sub(t, 1, Len(t) - 5)) ELSE t

\* The parser has just returned an object for a document whose first line
\* is a FAQ heading.
ParsedHeading ==
    /\ ParsedDoc
    /\ parsed.value.t = "object"
    /\ Len(doc) >= 1
    /\ doc[1] \in FAQHeadings

\* C11: the title is the heading text, with the suffix "(FAQ)"
\* removed when the text ends with it and verbatim otherwise.
C11_TitleSuffixOnly ==
    ParsedHeading => parsed.value.title = Str(SuffixStrippedTitle(BlockText[doc[1]]))

\* The items a block of complete pairs is expected to yield.
ItemsOfBlock(b) ==
    IF b = "PN" THEN <<PairItem("P1"), PairItem("P2")>> ELSE <<PairItem(b)>>

RECURSIVE ItemsOfBlocks(_)
ItemsOfBlocks(d) ==
    IF Len(d) = 0 THEN <<>> ELSE ItemsOfBlock(d[1]) \o ItemsOfBlocks(Tail(d))

HasSpecialPair ==
    \E i \in 1..Len(parsed.value.items.elems) :
        parsed.value.items.elems[i] =
            FAQItem(Str(<<"x", " ", "[", "u", "?">>), Str(<<"y", " ", "[", "k", " ", "(", "v", " ", "\\", "w", " ", "*", "z", "*", ".">>))

\* C13: called on a string, parseFAQFromContent does not throw and returns
\* null or an FAQData object; a well-formed pair with unclosed '[' and '(',
\* a backslash and asterisks under a FAQ heading is an item of the result.
C13_ParseStringNeverThrows ==
    (pc = "parsed" /\ content.t = "string")
    => /\ parsed.kind = "return"
       /\ parsed.value.t \in {"null", "object"}
       /\ (Len(doc) >= 2 /\ doc[1] = "H2" /\ \E j \in 2..Len(doc) : doc[j] = "PS")
          => (parsed.value.t = "object" /\ HasSpecialPair)

\* C13, witness: the pair with the special characters follows another pair
\* and both are returned.
C13_Witness ==
    /\ ParsedDoc
    /\ doc = <<"H2", "P1", "PS">>
    /\ parsed.value.t = "object"
    /\ Len(parsed.value.items.elems) = 2
    /\ HasSpecialPair

\* s holds no newline and no two whitespace characters in a row.
SingleSpaced(s) ==
    /\ \A j \in 1..Len(s) : s[j] # "\n"
    /\ \A j \in 1..(Len(s) - 1) : ~(s[j] \in Whitespace /\ s[j + 1] \in Whitespace)

\* C14: every question and every answer the parser emits holds no newline
\* and no run of two or more whitespace characters.
C14_NoWhitespaceRuns ==
    (ParsedDoc /\ parsed.value.t = "object")
    => \A i \in 1..Len(parsed.value.items.elems) :
          /\ SingleSpaced(parsed.value.items.elems[i].question.s)
          /\ SingleSpaced(parsed.value.items.elems[i].answer.s)

\* The raw HTML tags of s: from a '<' to the first '>' after it.
Tags(s) ==
    {Sub(s, i, SkipUntil(s, i, {">"})) :
        i \in {j \in 1..Len(s) : s[j] = "<" /\ SkipUntil(s, j, {">"}) <= Len(s)}}

\* w occurs in s.
Contains(s, w) == \E i \in 1..Len(s) : StartsWith(s, i, w)

\* C15: every raw HTML tag of the source text of a retained question or
\* answer occurs byte-identical in an emitted question or answer.  (The
\* tags of the model's documents all stand in retained pairs.)
C15_TagsByteIdentical ==
    (ParsedDoc /\ parsed.value.t = "object")
    => \A tag \in Tags(content.s) :
          \E i \in 1..Len(parsed.value.items.elems) :
              \/ Contains(parsed.value.items.elems[i].question.s, tag)
              \/ Contains(parsed.value.items.elems[i].answer.s, tag)

\* A generator has just been called on data.
Generated == pc \in {"generated", "itemsGenerated"}

\* d has a non-empty items array of entries whose question and answer are
\* non-blank strings.
AllNonBlank(d) ==
    /\ d.t = "object"
    /\ d.items.t = "array"
    /\ Len(d.items.elems) > 0
    /\ \A i \in 1..Len(d.items.elems) :
          /\ d.items.elems[i].t = "object"
          /\ NonBlankString(d.items.elems[i].question)
          /\ NonBlankString(d.items.elems[i].answer)

\* Node i holds the question and the answer of entry i, unchanged.
SameTexts(nodes, elems) ==
    /\ Len(nodes) = Len(elems)
    /\ \A i \in 1..Len(elems) :
          /\ nodes[i].name = elems[i].question.s
          /\ nodes[i].acceptedAnswer.text = elems[i].answer.s

\* C16: for FAQData with a non-empty items array of non-blank string
\* questions and answers, generateFAQSchema returns a FAQPage whose
\* mainEntity has the length of items, with name and acceptedAnswer.text of
\* node i equal to question and answer of item i, character for character.
C16_SchemaRoundTrip ==
    (Generated /\ AllNonBlank(data))
    => /\ schema.kind = "return"
       /\ schema.value.t = "object"
       /\ schema.value.type = "FAQPage"
       /\ SameTexts(schema.value.mainEntity, data.items.elems)

\* C16, witness: texts with tags, a newline, a tab and surrounding
\* whitespace come out unchanged.
C16_Witness ==
    /\ pc = "generated"
    /\ data.t = "object"
    /\ data.items = ItemsArray(<<FAQItem(RichText, GoodText), FAQItem(GoodText, RichText)>>)
    /\ schema.kind = "return"
    /\ schema.value.t = "object"
    /\ schema.value.mainEntity[1].name = RichText.s
    /\ schema.value.mainEntity[2].acceptedAnswer.text = RichText.s

\* An entry that is an object with a truthy question and a truthy answer.
TruthyEntry(e) == e.t = "object" /\ Truthy(e.question) /\ Truthy(e.answer)

\* d is null or undefined, its items are missing, not an array or empty, or
\* no entry of items is an object with truthy question and answer.
NothingToEmit(d) ==
    \/ d.t \in {"null", "undefined"}
    \/ d.items.t # "array"
    \/ \A i \in 1..Len(d.items.elems) : ~TruthyEntry(d.items.elems[i])

\* C17: generateFAQSchema returns no object with an empty mainEntity and
\* generateFAQSchemaItems no empty array; both return null when data is
\* null or undefined, when items is missing, not an array or empty, and
\* when no item survives filtering.
C17_NeverEmpty ==
    /\ Generated =>
          /\ (schema.kind = "return" /\ schema.value.t = "object")
                => Len(schema.value.mainEntity) > 0
          /\ NothingToEmit(data) => schema = Return(NullSchema)
    /\ pc = "itemsGenerated" =>
          /\ (schemaItems.kind = "return" /\ schemaItems.value.t = "array")
                => Len(schemaItems.value.elems) > 0
          /\ NothingToEmit(data) => schemaItems = Return(NullItems)

\* C17, witness: the only entry has an empty question and both generators
\* return null.
C17_Witness ==
    /\ pc = "itemsGenerated"
    /\ data.t = "object"
    /\ data.items = ItemsArray(<<FAQItem(Str(<<>>), GoodText)>>)
    /\ schema = Return(NullSchema)
    /\ schemaItems = Return(NullItems)

\* The Question nodes of the entries of elems that are objects with truthy
\* question and answer, in the order of elems.
ExpectedNodes(elems) ==
    LET kept == SelectSeq(elems, TruthyEntry)
    IN  [i \in 1..Len(kept) |->
            [type |-> "Question",
             name |-> String(kept[i].question),
             acceptedAnswer |->
                 [type |-> "Answer", text |-> String(kept[i].answer)]]]

MixedWithEmpty(d) ==
    /\ d.t = "object"
    /\ d.items.t = "array"
    /\ \A i \in 1..Len(d.items.elems) :
          /\ d.items.elems[i].t = "object"
          /\ d.items.elems[i].question.t = "string"
          /\ d.items.elems[i].answer.t = "string"
    /\ \E i \in 1..Len(d.items.elems) : TruthyEntry(d.items.elems[i])
    /\ \E i \in 1..Len(d.items.elems) :
          \/ d.items.elems[i].question = Str(<<>>)
          \/ d.items.elems[i].answer = Str(<<>>)

\* C19: for items that mix valid entries with entries whose question or
\* answer is the empty string, both generators emit one Question node per
\* input item, at the same index, the empty strings preserved.
C19_EmptyStringsPreserved ==
    (Generated /\ MixedWithEmpty(data))
    => /\ schema.kind = "return"
       /\ schema.value.t = "object"
       /\ SameTexts(schema.value.mainEntity, data.items.elems)
       /\ pc = "itemsGenerated" =>
            /\ schemaItems.kind = "return"
            /\ schemaItems.value.t = "array"
            /\ SameTexts(schemaItems.value.elems, data.items.elems)

\* C20: generateFAQSchema and generateFAQSchemaItems do not throw; each
\* call returns null or a schema value.
C20_GenerateNeverThrows ==
    /\ Generated =>
          /\ schema.kind = "return"
          /\ schema.value.t \in {"null", "object"}
    /\ pc = "itemsGenerated" =>
          /\ schemaItems.kind = "return"
          /\ schemaItems.value.t \in {"null", "array"}

\* C20, witness: items is a string, the call of filter fails inside the
\* try block and both generators return null.
C20_Witness ==
    /\ pc = "itemsGenerated"
    /\ data.t = "object"
    /\ data.items.t = "string"
    /\ schema = Return(NullSchema)
    /\ schemaItems = Return(NullItems)

\* The keys of a Question node.
NodeKeys(node) == DOMAIN node

\* C21: generateFAQSchemaItems(data) is null exactly when
\* generateFAQSchema(data) is null and otherwise equals its mainEntity
\* element by element; the page object adds only "@context":
\* "https://schema.org" and "@type": "FAQPage", and no Question node has an
\* "@context" key.
C21_ItemsEqualMainEntity ==
    pc = "itemsGenerated"
    => /\ (schemaItems = Return(NullItems)) <=> (schema = Return(NullSchema))
       /\ schema # Return(NullSchema) =>
            /\ schema.kind = "return"
            /\ schemaItems.kind = "return"
            /\ schemaItems.value.t = "array"
            /\ schemaItems.value.elems = schema.value.mainEntity
            /\ schema.value.context = "https://schema.org"
            /\ schema.value.type = "FAQPage"
            /\ DOMAIN schema.value = {"t", "context", "type", "mainEntity"}
            /\ \A i \in 1..Len(schemaItems.value.elems) :
                  /\ NodeKeys(schemaItems.value.elems[i]) = {"type", "name", "acceptedAnswer"}
                  /\ schemaItems.value.elems[i].type = "Question"

\* C21, witness: two of the four mixed entries are kept and both results
\* hold the same two nodes.
C21_Witness ==
    /\ pc = "itemsGenerated"
    /\ data = MixedData
    /\ schema.kind = "return"
    /\ schema.value.t = "object"
    /\ Len(schema.value.mainEntity) = 2
    /\ schemaItems.value.elems = schema.value.mainEntity

\* s is a string with a character that is no whitespace.
NonBlankChars(s) == Len(Trim(s)) > 0

\* C22: a FAQPage schema that generateBlogPostSchemaData emits has a
\* non-empty mainEntity, and name and acceptedAnswer.text of each of its
\* Question nodes are non-blank strings.
C22_EmittedSchemaHasNoBlanks ==
    (pc = "composed" /\ result.t = "array")
    => /\ result.faq.t = "object"
       /\ result.faq.type = "FAQPage"
       /\ Len(result.faq.mainEntity) > 0
       /\ \A i \in 1..Len(result.faq.mainEntity) :
             /\ NonBlankChars(result.faq.mainEntity[i].name)
             /\ NonBlankChars(result.faq.mainEntity[i].acceptedAnswer.text)

\* C22, witness: an article with two plain pairs gets a FAQ schema of two
\* nodes with the pairs' texts.
C22_Witness ==
    /\ pc = "composed"
    /\ doc = <<"H2", "P1", "P2">>
    /\ result.t = "array"
    /\ Len(result.faq.mainEntity) = 2
    /\ result.faq.mainEntity[1].name = <<"x">>
    /\ result.faq.mainEntity[2].acceptedAnswer.text = <<"v">>

\* Parse, validate and generate yielded a FAQ schema for the content.
FaqSchemaYielded ==
    /\ Truthy(content)
    /\ parsed.kind = "return"
    /\ parsed.value.t = "object"
    /\ valid = Return(TRUE)
    /\ schema.kind = "return"
    /\ schema.value.t = "object"

\* C23: for a published post with title and description the composer
\* returns [mainSchema, faqSchema] exactly when content is supplied and
\* parse, validate and generate yield a FAQ schema, and the main schema
\* alone in every other case; the main schema is the same in both cases and
\* the FAQ schema is not nested in it.
C23_FaqSchemaIsSibling ==
    pc = "composed"
    => /\ result.t \in {"object", "array"}
       /\ (result.t = "array") <=> FaqSchemaYielded
       /\ result.t = "array" => result.faq = schema.value
       /\ result.t = "object" => result.faq = NullSchema
       /\ result.main \in {MainSchema(schemaType), FallbackSchema(schemaType)}

\* C23, witness: the validator rejects the parsed data of an article and
\* the BlogPosting schema is returned alone.
C23_Witness ==
    /\ pc = "composed"
    /\ doc = <<"H2", "PB">>
    /\ valid = Return(FALSE)
    /\ schemaType = "BlogPosting"
    /\ result.t = "object"
    /\ result.main = MainSchema("BlogPosting")

\* C24: validateFAQData, generateFAQSchema and generateFAQSchemaItems leave
\* their argument unchanged: across each call data.items keeps its length,
\* its elements and their order.
C24_ArgumentUnchanged ==
    [][/\ (pc = "parsed" /\ pc' = "validated")
            => (data' = parsed.value /\ parsed' = parsed)
       /\ (pc = "validated" /\ pc' = "generated") => data' = data
       /\ (pc = "generated" /\ pc' = "itemsGenerated") => data' = data]_vars

\* C24, witness: generateFAQSchemaItems returned two nodes for the four
\* mixed entries and data still holds the four.
C24_Witness ==
    /\ pc = "itemsGenerated"
    /\ data = MixedData
    /\ Len(data.items.elems) = 4
    /\ schemaItems.kind = "return"
    /\ Len(schemaItems.value.elems) = 2

\* The pair "x" / "y" written 'Q1:x', 'Q1: x', 'Q: x', 'Q1 : x' and 'Q x',
\* with the matching forms of the answer line.
MarkerForms == {"PF1", "P1", "PF2", "PF3", "PF4"}

\* C26: for question lines written 'Q1:text', 'Q1: text', 'Q1 : text',
\* 'Q: text' and 'Q text' and answer lines in the matching forms the
\* emitted question and answer are the text alone, without the marker
\* letter, its number, the colon and the whitespace around the colon.
C26_MarkerNeverEmitted ==
    (ParsedDoc /\ Len(doc) = 2 /\ doc[1] = "H2" /\ doc[2] \in MarkerForms)
    => /\ parsed.value.t = "object"
       /\ parsed.value.items.elems = <<FAQItem(Str(<<"x">>), Str(<<"y">>))>>

\* C27: blank lines, deeper sub-headings and list items between an answer
\* and the next question marker are part of that item's answer, and the
\* question that follows yields an item of its own.
C27_NestedContentInAnswer ==
    (ParsedDoc /\ doc = <<"H2", "PNest", "P2">>)
    => /\ parsed.value.t = "object"
       /\ Len(parsed.value.items.elems) = 2
       /\ parsed.value.items.elems[1].question = Str(<<"x">>)
       /\ Contains(parsed.value.items.elems[1].answer.s, <<"S">>)
       /\ Contains(parsed.value.items.elems[1].answer.s, <<"-", " ", "l">>)
       /\ Contains(parsed.value.items.elems[1].answer.s, <<"T">>)
       /\ parsed.value.items.elems[2] = PairItem("P2")

\* The indexes at which the lines of s start.
LineStarts(s) == {1} \cup {i + 1 : i \in {j \in 1..Len(s) : s[j] = "\n"}}

\* The line of s that starts at i, without its line break.
LineAt(s, i) == Sub(s, i, SkipUntil(s, i, {"\n"}) - 1)

\* w is the end of t.
EndsWith(t, w) == Len(t) >= Len(w) /\ StartsWith(t, Len(t) - Len(w) + 1, w)

\* C28: the question of every emitted item is the cleaned text of one
\* source line from the end of the question marker to the line break; it
\* holds no text of a later line.
C28_QuestionIsOneLine ==
    (ParsedDoc /\ parsed.value.t = "object")
    => \A k \in 1..Len(parsed.value.items.elems) :
          \E i \in LineStarts(content.s) :
              /\ Contains(LineAt(content.s, i), <<"Q">>)
              /\ EndsWith(cleanText(LineAt(content.s, i)),
                          parsed.value.items.elems[k].question.s)

\* Blocks that are no part of a pair: prose paragraphs and headings of the
\* FAQ heading's level.
ProseBlocks == {"U", "Prose", "APar", "O", "HB"}

\* C29: an answer ends at the next question marker, at a blank line
\* followed by other content, or at the end of input: a prose paragraph
\* after a blank line, whatever its first letter, and a following heading
\* of the same or a shallower level are part of no emitted answer.
C29_AnswerEndsAtBlankLine ==
    (ParsedDoc /\ parsed.value.t = "object" /\ doc[1] = "H2")
    => \A k \in 1..Len(parsed.value.items.elems) :
          \A j \in 2..Len(doc) :
              doc[j] \in ProseBlocks
              => ~Contains(parsed.value.items.elems[k].answer.s, BlockText[doc[j]])

\* s holds a markdown link [text](url).
HasLink(s) == \E i \in 1..Len(s) : LinkEndAt(s, i) # 0

\* C30: no emitted answer holds a markdown link [text](url), so stripping
\* links a second time changes nothing.
C30_NoResidualLink ==
    (ParsedDoc /\ parsed.value.t = "object")
    => \A k \in 1..Len(parsed.value.items.elems) :
          /\ ~HasLink(parsed.value.items.elems[k].answer.s)
          /\ stripMarkdownLinks(parsed.value.items.elems[k].answer.s)
               = parsed.value.items.elems[k].answer.s

====
